---------------------------- MODULE Spec2Model ----------------------------
(***************************************************************************)
(* A model of lambdamoo_db/reader.py: the one-pass decoder of LambdaMOO    *)
(* database dumps (format versions 4 and 17).                              *)
(*                                                                         *)
(* A line of text is a sequence of one-character strings, so that the      *)
(* regular expressions, int(), startswith, "in", index and slicing of the  *)
(* source are computed on characters.  The reader is a sequential program: *)
(* its control state is `stack', the sequence of the operations still to   *)
(* run (the continuation of the Python call stack), and every action runs  *)
(* the operation on top: at most one readString() and the straight-line    *)
(* code that follows it.                                                   *)
(***************************************************************************)
EXTENDS Integers, Sequences, FiniteSets, TLC

VARIABLES
  file,      \* the source: the lines readline() returns, terminators included
  desc,      \* the abstract database the file was written from (never changes)
  fault,     \* the damage done to the written file (never changes)
  line,      \* Reader.line
  stack,     \* operations still to run, the running one first
  status,    \* "running", "done" (parse returned db) or "failed" (an exception left parse)
  err,       \* the exception that left parse
  db,        \* the MooDatabase under construction
  obj,       \* the MooObject readObject_v4 / readObject_ng is building
  task,      \* the QueuedTask readQueuedTask / readSuspendedTask is building
  ret,       \* the value the last finished readValue / readCode returned
  sections   \* history: the top-level sections parse has entered, in order

vars == <<file, desc, fault, line, stack, status, err, db, obj, task, ret, sections>>

---------------------------------------------------------------------------
(* Bounds of the model.                                                    *)

\* reads the model follows past the end of the source (each returns "")
MaxEofReads == 8
\* object records of a generated object section
MaxObjects == 2
\* declared property names of a generated property section
MaxNames == 2
\* property definitions of a generated property section
MaxDefs == 3
\* verb code blocks of a generated verb section
MaxBlocks == 2
\* suspended-task records of a generated suspended-task section
MaxSuspended == 2

---------------------------------------------------------------------------
(* Characters and Python's conversions.                                    *)

Digit == {"0", "1", "2", "3", "4", "5", "6", "7", "8", "9"}

DigitVal(c) ==
  CASE c = "0" -> 0 [] c = "1" -> 1 [] c = "2" -> 2 [] c = "3" -> 3
    [] c = "4" -> 4 [] c = "5" -> 5 [] c = "6" -> 6 [] c = "7" -> 7
    [] c = "8" -> 8 [] c = "9" -> 9

IsDigits(s) == Len(s) > 0 /\ \A i \in 1..Len(s) : s[i] \in Digit

RECURSIVE DigitsVal(_)
DigitsVal(s) ==
  IF s = <<>> THEN 0
  ELSE 10 * DigitsVal(SubSeq(s, 1, Len(s) - 1)) + DigitVal(s[Len(s)])

\* s[i:] of Python, i counted from 0
From(s, i) == SubSeq(s, i + 1, Len(s))

\* str.rstrip("\r\n")
RECURSIVE RStripNewlines(_)
RStripNewlines(s) ==
  IF s # <<>> /\ s[Len(s)] \in {"\r", "\n"}
  THEN RStripNewlines(SubSeq(s, 1, Len(s) - 1))
  ELSE s

\* the whitespace int() and float() skip on both sides
RECURSIVE StripSpace(_)
StripSpace(s) ==
  IF s # <<>> /\ s[1] \in {" ", "\t"} THEN StripSpace(Tail(s))
  ELSE IF s # <<>> /\ s[Len(s)] \in {" ", "\t"}
       THEN StripSpace(SubSeq(s, 1, Len(s) - 1))
       ELSE s

Unsigned(s) == IF s # <<>> /\ s[1] \in {"+", "-"} THEN Tail(s) ELSE s

\* int(s) succeeds: optional sign, then decimal digits (digit-group underscores
\* and non-ASCII digits are outside the lines the model reads)
PyIntOK(s) == IsDigits(Unsigned(StripSpace(s)))

PyInt(s) ==
  LET u == StripSpace(s)
  IN  IF u[1] = "-" THEN 0 - DigitsVal(Tail(u)) ELSE DigitsVal(Unsigned(u))

\* float(s) succeeds: decimal literals "d", "d.d" with an optional sign
DotAt(s) == IF \E i \in 1..Len(s) : s[i] = "." THEN CHOOSE i \in 1..Len(s) : s[i] = "." ELSE 0

PyFloatOK(s) ==
  LET u == Unsigned(StripSpace(s))
      d == DotAt(u)
  IN  IF d = 0 THEN IsDigits(u)
      ELSE IsDigits(SubSeq(u, 1, d - 1)) /\ IsDigits(From(u, d))

RECURSIVE DropZeros(_)
DropZeros(s) ==
  IF s # <<>> /\ s[Len(s)] = "0" THEN DropZeros(SubSeq(s, 1, Len(s) - 1)) ELSE s

\* a float as <<sign, whole part, fraction digits>>
PyFloat(s) ==
  LET t == StripSpace(s)
      u == Unsigned(t)
      d == DotAt(u)
      whole == IF d = 0 THEN DigitsVal(u) ELSE DigitsVal(SubSeq(u, 1, d - 1))
      frac == IF d = 0 THEN <<>> ELSE DropZeros(From(u, d))
  IN  <<IF t[1] = "-" /\ (whole # 0 \/ frac # <<>>) THEN 0 - 1 ELSE 1, whole, frac>>

\* str.startswith
StartsWith(s, p) == Len(s) >= Len(p) /\ SubSeq(s, 1, Len(p)) = p

\* p in s
Contains(s, p) == \E i \in 0..(Len(s) - Len(p)) : SubSeq(s, i + 1, i + Len(p)) = p

\* s.index(c), counted from 0
IndexOf(s, c) == (CHOOSE i \in 1..Len(s) : s[i] = c /\ \A j \in 1..(i - 1) : s[j] # c) - 1

---------------------------------------------------------------------------
(* Regular expressions: a pattern is a sequence of elements, matched from  *)
(* the start of the line as re.match does.                                 *)
(*   Lit(s)      the characters s                                          *)
(*   Num(cap)    \d+, a capture group when cap                             *)
(*   OptMinus    -?                                                        *)
(*   Alt(alts)   a capture group of alternatives, tried in order           *)
(*   DotPlusNl   .+\n                                                      *)

Lit(s) == [k |-> "lit", s |-> s]
Num(cap) == [k |-> "num", cap |-> cap]
OptMinus == [k |-> "optminus"]
Alt(alts) == [k |-> "alt", alts |-> alts]
DotPlusNl == [k |-> "dotplusnl"]

NoMatch == [ok |-> FALSE, end |-> 0, caps |-> <<>>]

\* the index after the longest run of digits that starts at i
RECURSIVE DigitRunEnd(_, _)
DigitRunEnd(s, i) ==
  IF i <= Len(s) /\ s[i] \in Digit THEN DigitRunEnd(s, i + 1) ELSE i

RECURSIVE MatchAt(_, _, _, _)
RECURSIVE MatchAlt(_, _, _, _, _, _)
MatchAt(pat, s, i, caps) ==
  IF pat = <<>> THEN [ok |-> TRUE, end |-> i, caps |-> caps]
  ELSE
    LET e == Head(pat)
        rest == Tail(pat)
    IN  CASE e.k = "lit" ->
               IF i + Len(e.s) - 1 <= Len(s) /\ SubSeq(s, i, i + Len(e.s) - 1) = e.s
               THEN MatchAt(rest, s, i + Len(e.s), caps)
               ELSE NoMatch
          [] e.k = "num" ->
               LET j == DigitRunEnd(s, i)
               IN  IF j = i THEN NoMatch
                   ELSE MatchAt(rest, s, j,
                                IF e.cap THEN Append(caps, SubSeq(s, i, j - 1)) ELSE caps)
          [] e.k = "optminus" ->
               LET taken == IF i <= Len(s) /\ s[i] = "-"
                            THEN MatchAt(rest, s, i + 1, caps)
                            ELSE NoMatch
               IN  IF taken.ok THEN taken ELSE MatchAt(rest, s, i, caps)
          [] e.k = "alt" -> MatchAlt(e.alts, 1, rest, s, i, caps)
          [] e.k = "dotplusnl" ->
               LET nl == {j \in i..Len(s) : s[j] = "\n"}
                   j == IF nl = {} THEN 0 ELSE CHOOSE x \in nl : \A y \in nl : x <= y
               IN  IF j > i THEN MatchAt(rest, s, j + 1, caps) ELSE NoMatch
MatchAlt(alts, n, rest, s, i, caps) ==
  IF n > Len(alts) THEN NoMatch
  ELSE
    LET a == MatchAt(alts[n], s, i, <<>>)
        r == IF a.ok
             THEN MatchAt(rest, s, a.end, Append(caps, SubSeq(s, i, a.end - 1)))
             ELSE NoMatch
    IN  IF r.ok THEN r ELSE MatchAlt(alts, n + 1, rest, s, i, caps)

\* re.match(pattern, s)
Match(pat, s) == MatchAt(pat, s, 1, <<>>)

VersionPrefix ==
  <<"*","*"," ","L","a","m","b","d","a","M","O","O"," ","D","a","t","a","b","a","s","e",","," ","F","o","r","m","a","t"," ","V","e","r","s","i","o","n"," ">>
VersionSuffix == <<" ","*","*">>
WVariables == <<" ","v","a","r","i","a","b","l","e","s">>
WClocks == <<" ","c","l","o","c","k","s">>
WQueuedTasks == <<" ","q","u","e","u","e","d"," ","t","a","s","k","s">>
WPending ==
  <<" ","v","a","l","u","e","s"," ","p","e","n","d","i","n","g"," ","f","i","n","a","l","i","z","a","t","i","o","n">>
WSuspendedTasks == <<" ","s","u","s","p","e","n","d","e","d"," ","t","a","s","k","s">>
WInterruptedTasks == <<" ","i","n","t","e","r","r","u","p","t","e","d"," ","t","a","s","k","s">>
WInterruptedReading ==
  <<" ","i","n","t","e","r","r","u","p","t","e","d"," ","r","e","a","d","i","n","g"," ","t","a","s","k">>
WActiveConnections ==
  <<" ","a","c","t","i","v","e"," ","c","o","n","n","e","c","t","i","o","n","s">>
WWithListeners == <<" ","w","i","t","h"," ","l","i","s","t","e","n","e","r","s">>
WRecycled == <<"r","e","c","y","c","l","e","d">>
Sp == <<" ">>

versionRe == <<Lit(VersionPrefix), Num(TRUE), Lit(VersionSuffix)>>
varCountRe == <<Num(TRUE), Lit(WVariables)>>
clockCountRe == <<Num(TRUE), Lit(WClocks)>>
taskCountRe == <<Num(TRUE), Lit(WQueuedTasks)>>
taskHeaderRe == <<Num(FALSE), Lit(Sp), Num(TRUE), Lit(Sp), Num(TRUE), Lit(Sp), Num(TRUE)>>
activationHeaderRe ==
  <<OptMinus, Num(TRUE), Lit(Sp), OptMinus, Num(FALSE), Lit(Sp), OptMinus, Num(FALSE), Lit(Sp),
    OptMinus, Num(TRUE), Lit(Sp), OptMinus, Num(FALSE), Lit(Sp), OptMinus, Num(TRUE), Lit(Sp),
    OptMinus, Num(TRUE), Lit(Sp), OptMinus, Num(FALSE), Lit(Sp), OptMinus, Num(TRUE)>>
pendingValueRe == <<Num(TRUE), Lit(WPending)>>
suspendedTaskCountRe == <<Num(TRUE), Lit(WSuspendedTasks)>>
\* groups: startTime, id, endchar, value
suspendedTaskHeaderRe ==
  <<Num(TRUE), Lit(Sp), Num(TRUE), Alt(<< <<Lit(<<"\n">>)>>, <<Lit(Sp)>> >>),
    Alt(<< <<>>, <<DotPlusNl>> >>)>>
interruptedTaskCountRe == <<Num(TRUE), Lit(WInterruptedTasks)>>
\* the group named id is empty
interruptedTaskHeaderRe == <<Alt(<< <<>> >>), Lit(WInterruptedReading)>>
connectionCountRe ==
  <<Num(TRUE), Lit(WActiveConnections), Alt(<< <<>>, <<Lit(WWithListeners)>> >>)>>

---------------------------------------------------------------------------
(* Python values, as readValue returns them.  A dict is the sequence of    *)
(* its <<key, value>> pairs in insertion order.                            *)

PyNone == [t |-> "None"]
PyI(n) == [t |-> "int", i |-> n]
PyS(s) == [t |-> "str", s |-> s]
PyF(f) == [t |-> "float", f |-> f]
PyB(b) == [t |-> "bool", b |-> b]
PyL(elems) == [t |-> "list", l |-> elems]
PyD(pairs) == [t |-> "dict", d |-> pairs]

\* hash(v) is defined: lists and dicts are unhashable
Hashable(v) == v.t \notin {"list", "dict"}

IsNum(v) == v.t \in {"int", "bool", "float"}

NumKey(v) ==
  CASE v.t = "int" -> <<IF v.i < 0 THEN 0 - 1 ELSE 1, IF v.i < 0 THEN 0 - v.i ELSE v.i, <<>>>>
    [] v.t = "bool" -> <<1, IF v.b THEN 1 ELSE 0, <<>>>>
    [] v.t = "float" -> v.f

\* a == b for two hashable values: numbers compare by value across int, bool, float
PyEq(a, b) ==
  IF IsNum(a) /\ IsNum(b) THEN NumKey(a) = NumKey(b)
  ELSE a.t = b.t /\ a = b

\* d[k] = v
DictSet(d, k, v) ==
  IF \E i \in 1..Len(d) : PyEq(d[i][1], k)
  THEN LET i == CHOOSE j \in 1..Len(d) : PyEq(d[j][1], k)
       IN  [d EXCEPT ![i] = <<d[i][1], v>>]
  ELSE Append(d, <<k, v>>)

\* seq[i] of a Python list: the 1-based position, or 0 when i is out of range
PyIndex(seq, i) ==
  IF 0 <= i /\ i < Len(seq) THEN i + 1
  ELSE IF i < 0 /\ 0 - i <= Len(seq) THEN Len(seq) + i + 1
  ELSE 0

---------------------------------------------------------------------------
(* lambdamoo_db.enums: the type tags of values and the format versions     *)
(* that introduced optional fields.                                        *)

MooTypes_INT == 0
MooTypes_OBJ == 1
MooTypes_STR == 2
MooTypes_ERR == 3
MooTypes_LIST == 4
MooTypes_CLEAR == 5
MooTypes_NONE == 6
MooTypes_FLOAT == 9
MooTypes_MAP == 10
MooTypes_ANON == 12
MooTypes_BOOL == 14

DBV_This == 11
DBV_Anon == 13
DBV_Last_Move == 15
DBV_Threaded == 16

---------------------------------------------------------------------------
(* lambdamoo_db.database: the decoded entities.                            *)

MooDatabase ==
  [version |-> 0, versionstring |-> <<>>, total_objects |-> 0, total_verbs |-> 0,
   total_players |-> 0, players |-> <<>>, objects |-> <<>>, queuedTasks |-> <<>>]

MooObject(id, name, flags, owner, location, parent) ==
  [id |-> id, name |-> name, flags |-> flags, owner |-> owner, location |-> location,
   parent |-> parent, verbs |-> <<>>, properties |-> <<>>]

NoCode == [set |-> FALSE, lines |-> <<>>]

Verb(name, owner, perms, preps) ==
  [name |-> name, owner |-> owner, perms |-> perms, preps |-> preps, code |-> NoCode]

Property(name, value, owner, perms) ==
  [name |-> name, value |-> value, owner |-> owner, perms |-> perms]

Activation ==
  [this |-> 0, player |-> 0, programmer |-> 0, vloc |-> 0, debug |-> FALSE,
   verb |-> <<>>, verbname |-> <<>>]

QueuedTask(firstLineno, id, st) ==
  [firstLineno |-> firstLineno, id |-> id, st |-> st, activation |-> Activation,
   rtEnv |-> <<>>, code |-> <<>>, hasValue |-> FALSE, value |-> PyNone]

\* the registers when no object / task is being built
NoObject == MooObject(0 - 1, <<>>, 0, 0, PyNone, PyNone)
NoTask == QueuedTask(0 - 1, 0 - 1, 0 - 1)

\* bool(x) of a MooObject or a Verb: instances of a plain class are true
Truthy(x) == TRUE

---------------------------------------------------------------------------
(* The control state.  A frame is one operation still to run: op names it, *)
(* a and b hold its locals.                                                *)

F(op) == [op |-> op, a |-> 0, b |-> <<>>]
FA(op, a, b) == [op |-> op, a |-> a, b |-> b]

RECURSIVE Rep(_, _)
\* the body of "for _ in range(n)": n copies of the frames of one iteration
Rep(n, frames) == IF n <= 0 THEN <<>> ELSE frames \o Rep(n - 1, frames)

\* the operation op is the next to run
Step(op) == status = "running" /\ stack # <<>> /\ Head(stack).op = op

\* readString: self.line += 1 (the model follows MaxEofReads reads past the end)
Reads(op) == Step(op) /\ line < Len(file) + MaxEofReads /\ line' = line + 1

\* an operation that reads no line
Silent(op) == Step(op) /\ line' = line

\* what this step's readString returns: readline() gives "" once the source is exhausted
Text == IF line < Len(file) THEN RStripNewlines(file[line + 1]) ELSE <<>>

\* an exception leaves parse; parse_error tags its message with self.line
Raise(kind, msg) ==
  /\ status' = "failed"
  /\ err' = [kind |-> kind, msg |-> msg, line |-> line', op |-> Head(stack).op]
  /\ stack' = <<>>

parse_error(msg) == Raise("parse_error", msg)

Continue(stk) == status' = status /\ err' = err /\ stack' = stk

Rest == Tail(stack)
Top == Head(stack)

NoErr == [kind |-> "", msg |-> "", line |-> 0, op |-> ""]

---------------------------------------------------------------------------
(* Reader.parse, parse_v4, parse_v17                                       *)

parse_v4 ==
  <<F("total_objects"), F("total_verbs"), F("dummy"), F("readPlayers"), F("readObjects"),
    F("readVerbs"), F("readClocks"), F("readTaskQueue")>>

parse_v17 ==
  <<F("readPlayers"), F("readPending"), F("readClocks"), F("readTaskQueue"),
    F("readSuspendedTasks"), F("readInterruptedTasks"), F("readConnections"),
    F("total_objects"), F("readObjects"), F("total_verbs"), F("readVerbs")>>

\* a dispatch that takes every version from 17 up
DispatchGe17(version) ==
  IF version = 4 THEN "v4" ELSE IF version >= 17 THEN "v17" ELSE "unknown"

\* match db.version: case 4 / case 17 / case _
Dispatch(version) ==
  IF version = 4 THEN "v4" ELSE IF version = 17 THEN "v17" ELSE "unknown"

Parse ==
  /\ Reads("parse")
  /\ LET m == Match(versionRe, Text)
     IN  IF ~m.ok
         THEN \* None.group("version")
              /\ db' = [db EXCEPT !.versionstring = Text]
              /\ Raise("AttributeError", "'NoneType' object has no attribute 'group'")
         ELSE LET version == PyInt(m.caps[1])
                  which == Dispatch(version)
              IN  /\ db' = [db EXCEPT !.versionstring = Text, !.version = version]
                  /\ IF which = "unknown"
                     THEN parse_error("Unknown db version")
                     ELSE Continue((IF which = "v4" THEN parse_v4 ELSE parse_v17) \o Rest)
  /\ UNCHANGED <<file, desc, fault, obj, task, ret, sections>>

\* return db
Return ==
  /\ status = "running" /\ stack = <<>>
  /\ status' = "done"
  /\ UNCHANGED <<file, desc, fault, line, stack, err, db, obj, task, ret, sections>>

\* db.total_objects = self.readInt()
ReadTotalObjects ==
  /\ Reads("total_objects")
  /\ sections' = Append(sections, "total_objects")
  /\ IF PyIntOK(Text)
     THEN db' = [db EXCEPT !.total_objects = PyInt(Text)] /\ Continue(Rest)
     ELSE db' = db /\ Raise("ValueError", "invalid literal for int()")
  /\ UNCHANGED <<file, desc, fault, obj, task, ret>>

\* db.total_verbs = self.readInt()
ReadTotalVerbs ==
  /\ Reads("total_verbs")
  /\ sections' = Append(sections, "total_verbs")
  /\ IF PyIntOK(Text)
     THEN db' = [db EXCEPT !.total_verbs = PyInt(Text)] /\ Continue(Rest)
     ELSE db' = db /\ Raise("ValueError", "invalid literal for int()")
  /\ UNCHANGED <<file, desc, fault, obj, task, ret>>

\* self.readString()  # dummy
ReadDummy ==
  /\ Reads("dummy")
  /\ sections' = Append(sections, "dummy")
  /\ Continue(Rest)
  /\ UNCHANGED <<file, desc, fault, db, obj, task, ret>>

---------------------------------------------------------------------------
(* Reader.readPlayers                                                      *)

ReadPlayers ==
  /\ Reads("readPlayers")
  /\ sections' = Append(sections, "readPlayers")
  /\ IF ~PyIntOK(Text)
     THEN db' = db /\ Raise("ValueError", "invalid literal for int()")
     ELSE LET n == PyInt(Text)
          IN  /\ db' = [db EXCEPT !.total_players = n, !.players = <<>>]
              /\ IF n < 0
                 THEN \* no iteration: assert db.total_players == len(db.players)
                      Raise("AssertionError", "")
                 ELSE Continue(Rep(n, <<F("readPlayer")>>) \o Rest)
  /\ UNCHANGED <<file, desc, fault, obj, task, ret>>

\* db.players.append(self.readObjnum())
ReadPlayer ==
  /\ Reads("readPlayer")
  /\ IF PyIntOK(Text)
     THEN db' = [db EXCEPT !.players = Append(@, PyInt(Text))] /\ Continue(Rest)
     ELSE db' = db /\ Raise("ValueError", "invalid literal for int()")
  /\ UNCHANGED <<file, desc, fault, obj, task, ret, sections>>

---------------------------------------------------------------------------
(* Reader.readValue and the decoders it dispatches to                      *)

ReadValue ==
  /\ Reads("readValue")
  /\ IF ~PyIntOK(Text)
     THEN ret' = ret /\ Raise("ValueError", "invalid literal for int()")
     ELSE LET val_type == PyInt(Text)
          IN  CASE val_type = MooTypes_STR ->
                     ret' = ret /\ Continue(<<F("readString")>> \o Rest)
                [] val_type \in {MooTypes_OBJ, MooTypes_INT, MooTypes_ERR} ->
                     ret' = ret /\ Continue(<<F("readInt")>> \o Rest)
                [] val_type = MooTypes_ANON ->
                     \* Reader has no method readAnon
                     ret' = ret /\ Raise("AttributeError", "'Reader' object has no attribute 'readAnon'")
                [] val_type = MooTypes_FLOAT ->
                     ret' = ret /\ Continue(<<F("readFloat")>> \o Rest)
                [] val_type = MooTypes_LIST ->
                     ret' = ret /\ Continue(<<F("readList")>> \o Rest)
                [] val_type \in {MooTypes_CLEAR, MooTypes_NONE} ->
                     ret' = PyNone /\ Continue(Rest)
                [] val_type = MooTypes_MAP ->
                     ret' = ret /\ Continue(<<F("readMap")>> \o Rest)
                [] val_type = MooTypes_BOOL ->
                     ret' = ret /\ Continue(<<F("readBool")>> \o Rest)
                [] OTHER ->
                     ret' = ret /\ parse_error("unknown type")
  /\ UNCHANGED <<file, desc, fault, db, obj, task, sections>>

\* return self.readString()
ReadStringValue ==
  /\ Reads("readString")
  /\ ret' = PyS(Text)
  /\ Continue(Rest)
  /\ UNCHANGED <<file, desc, fault, db, obj, task, sections>>

\* readInt, readObjnum, readErr: return int(self.readString())
ReadIntValue ==
  /\ Reads("readInt")
  /\ IF PyIntOK(Text)
     THEN ret' = PyI(PyInt(Text)) /\ Continue(Rest)
     ELSE ret' = ret /\ Raise("ValueError", "invalid literal for int()")
  /\ UNCHANGED <<file, desc, fault, db, obj, task, sections>>

\* return float(self.readString())
ReadFloatValue ==
  /\ Reads("readFloat")
  /\ IF PyFloatOK(Text)
     THEN ret' = PyF(PyFloat(Text)) /\ Continue(Rest)
     ELSE ret' = ret /\ Raise("ValueError", "could not convert string to float")
  /\ UNCHANGED <<file, desc, fault, db, obj, task, sections>>

\* return bool(self.readString())
ReadBoolValue ==
  /\ Reads("readBool")
  /\ ret' = PyB(Text # <<>>)
  /\ Continue(Rest)
  /\ UNCHANGED <<file, desc, fault, db, obj, task, sections>>

\* length = self.readInt(); result = []
ReadList ==
  /\ Reads("readList")
  /\ IF ~PyIntOK(Text)
     THEN ret' = ret /\ Raise("ValueError", "invalid literal for int()")
     ELSE LET length == PyInt(Text)
          IN  IF length <= 0
              THEN ret' = PyL(<<>>) /\ Continue(Rest)
              ELSE /\ ret' = ret
                   /\ Continue(<<F("readValue"), FA("readList.append", length, <<>>)>> \o Rest)
  /\ UNCHANGED <<file, desc, fault, db, obj, task, sections>>

\* result.append(<the value readValue returned>); return result after the last one
ListAppend ==
  /\ Silent("readList.append")
  /\ LET result == Append(Top.b, ret)
     IN  IF Top.a = 1
         THEN ret' = PyL(result) /\ Continue(Rest)
         ELSE /\ ret' = ret
              /\ Continue(<<F("readValue"), FA("readList.append", Top.a - 1, result)>> \o Rest)
  /\ UNCHANGED <<file, desc, fault, db, obj, task, sections>>

\* items = self.readInt(); map = {}
ReadMap ==
  /\ Reads("readMap")
  /\ IF ~PyIntOK(Text)
     THEN ret' = ret /\ Raise("ValueError", "invalid literal for int()")
     ELSE LET items == PyInt(Text)
          IN  IF items <= 0
              THEN ret' = PyD(<<>>) /\ Continue(Rest)
              ELSE /\ ret' = ret
                   /\ Continue(<<F("readValue"), FA("readMap.key", items, [map |-> <<>>])>> \o Rest)
  /\ UNCHANGED <<file, desc, fault, db, obj, task, sections>>

\* key = <the value readValue returned>; val = self.readValue()
MapKey ==
  /\ Silent("readMap.key")
  /\ ret' = ret
  /\ Continue(<<F("readValue"), FA("readMap.store", Top.a, [map |-> Top.b.map, key |-> ret])>> \o Rest)
  /\ UNCHANGED <<file, desc, fault, db, obj, task, sections>>

\* map[key] = val; return map after the last pair
MapStore ==
  /\ Silent("readMap.store")
  /\ IF ~Hashable(Top.b.key)
     THEN ret' = ret /\ Raise("TypeError", "unhashable type")
     ELSE LET map == DictSet(Top.b.map, Top.b.key, ret)
          IN  IF Top.a = 1
              THEN ret' = PyD(map) /\ Continue(Rest)
              ELSE /\ ret' = ret
                   /\ Continue(<<F("readValue"), FA("readMap.key", Top.a - 1, [map |-> map])>> \o Rest)
  /\ UNCHANGED <<file, desc, fault, db, obj, task, sections>>

---------------------------------------------------------------------------
(* Reader.readObjects, readObject_v4, readObject_ng                        *)

\* db.objects = {}; for _ in range(db.total_objects)
ReadObjects ==
  /\ Silent("readObjects")
  /\ sections' = Append(sections, "readObjects")
  /\ db' = [db EXCEPT !.objects = <<>>]
  /\ Continue(Rep(db.total_objects, <<F("readObject")>>) \o Rest)
  /\ UNCHANGED <<file, desc, fault, obj, task, ret>>

\* a test that takes no record for a placeholder
IsRecycledNever(objNumber) == FALSE

\* "recycled" in objNumber
IsRecycled(objNumber) == Contains(objNumber, WRecycled)

\* the lines of both readObject variants up to oid = int(objNumber[1:]);
\* fields: the frames of the rest of the record
ObjectHeader(fields) ==
  LET objNumber == Text
  IN  IF ~StartsWith(objNumber, <<"#">>)
      THEN obj' = obj /\ parse_error("object number does not have #")
      ELSE IF IsRecycled(objNumber)
      THEN \* return None; readObjects: if not obj: continue
           obj' = obj /\ Continue(Rest)
      ELSE IF ~PyIntOK(From(objNumber, 1))
      THEN obj' = obj /\ Raise("ValueError", "invalid literal for int()")
      ELSE /\ obj' = [NoObject EXCEPT !.id = PyInt(From(objNumber, 1))]
           /\ Continue(fields \o Rest)

readObject_v4 ==
  <<FA("readObject_v4", 1, <<>>), F("numVerbs"), F("readProperties"), F("storeObject")>>

ReadObject_v4 ==
  /\ Reads("readObject")
  /\ db.version = 4
  /\ ObjectHeader(readObject_v4)
  /\ UNCHANGED <<file, desc, fault, db, task, ret, sections>>

\* name, blank line, flags, owner, location, firstContent, neighbor, parent,
\* firstChild, sibling: Top.a is the position in this list
ReadObject_v4_Field ==
  /\ Reads("readObject_v4")
  /\ LET i == Top.a
         next == IF i = 10 THEN Rest ELSE <<FA("readObject_v4", i + 1, <<>>)>> \o Rest
     IN  IF i \in {1, 2}
         THEN /\ obj' = IF i = 1 THEN [obj EXCEPT !.name = Text] ELSE obj
              /\ Continue(next)
         ELSE IF ~PyIntOK(Text)
         THEN obj' = obj /\ Raise("ValueError", "invalid literal for int()")
         ELSE /\ obj' = CASE i = 3 -> [obj EXCEPT !.flags = PyInt(Text)]
                          [] i = 4 -> [obj EXCEPT !.owner = PyInt(Text)]
                          [] i = 5 -> [obj EXCEPT !.location = PyI(PyInt(Text))]
                          [] i = 8 -> [obj EXCEPT !.parent = PyI(PyInt(Text))]
                          [] OTHER -> obj
              /\ Continue(next)
  /\ UNCHANGED <<file, desc, fault, db, task, ret, sections>>

\* location, [last_move], contents, parents, children = self.readValue()
readObject_ng(version) ==
  <<FA("readObject_ng", 1, <<>>), F("readValue"), FA("assign", "location", <<>>)>>
  \o (IF version >= DBV_Last_Move
      THEN <<F("readValue"), FA("assign", "last_move", <<>>)>> ELSE <<>>)
  \o <<F("readValue"), FA("assign", "contents", <<>>),
       F("readValue"), FA("assign", "parents", <<>>),
       F("readValue"), FA("assign", "children", <<>>),
       F("numVerbs"), F("readProperties"), F("storeObject")>>

ReadObject_ng ==
  /\ Reads("readObject")
  /\ db.version # 4
  /\ ObjectHeader(readObject_ng(db.version))
  /\ UNCHANGED <<file, desc, fault, db, task, ret, sections>>

\* name, flags, owner: Top.a is the position in this list
ReadObject_ng_Field ==
  /\ Reads("readObject_ng")
  /\ LET i == Top.a
         next == IF i = 3 THEN Rest ELSE <<FA("readObject_ng", i + 1, <<>>)>> \o Rest
     IN  IF i = 1
         THEN obj' = [obj EXCEPT !.name = Text] /\ Continue(next)
         ELSE IF ~PyIntOK(Text)
         THEN obj' = obj /\ Raise("ValueError", "invalid literal for int()")
         ELSE /\ obj' = IF i = 2 THEN [obj EXCEPT !.flags = PyInt(Text)]
                        ELSE [obj EXCEPT !.owner = PyInt(Text)]
              /\ Continue(next)
  /\ UNCHANGED <<file, desc, fault, db, task, ret, sections>>

\* an assignment of the value readValue just returned: Top.a names the target
Assign ==
  /\ Silent("assign")
  /\ obj' = CASE Top.a = "location" -> [obj EXCEPT !.location = ret]
              [] Top.a = "parents" -> [obj EXCEPT !.parent = ret]
              [] OTHER -> obj
  /\ task' = CASE Top.a = "rtEnv" -> [task EXCEPT !.rtEnv = DictSet(@, PyS(Top.b), ret)]
               [] Top.a = "task.value" -> NoTask
               [] OTHER -> task
  /\ db' = IF Top.a = "task.value"
           THEN \* task.value = self.readValue(); db.queuedTasks.append(task)
                [db EXCEPT !.queuedTasks =
                   Append(@, [task EXCEPT !.value = ret, !.hasValue = TRUE])]
           ELSE db
  /\ Continue(Rest)
  /\ UNCHANGED <<file, desc, fault, ret, sections>>

\* numVerbs = self.readInt(); for _ in range(numVerbs): self.readVerbMetadata(obj)
ReadNumVerbs ==
  /\ Reads("numVerbs")
  /\ IF PyIntOK(Text)
     THEN Continue(Rep(PyInt(Text), <<FA("readVerbMetadata", 1, <<>>)>>) \o Rest)
     ELSE Raise("ValueError", "invalid literal for int()")
  /\ UNCHANGED <<file, desc, fault, db, obj, task, ret, sections>>

\* name, owner, perms, preps; then obj.verbs.append(Verb(name, owner, perms, preps))
ReadVerbMetadata ==
  /\ Reads("readVerbMetadata")
  /\ LET i == Top.a
     IN  IF i = 1
         THEN obj' = obj /\ Continue(<<FA("readVerbMetadata", 2, <<Text>>)>> \o Rest)
         ELSE IF ~PyIntOK(Text)
         THEN obj' = obj /\ Raise("ValueError", "invalid literal for int()")
         ELSE IF i < 4
         THEN /\ obj' = obj
              /\ Continue(<<FA("readVerbMetadata", i + 1, Append(Top.b, PyInt(Text)))>> \o Rest)
         ELSE /\ obj' = [obj EXCEPT !.verbs =
                           Append(@, Verb(Top.b[1], Top.b[2], Top.b[3], PyInt(Text)))]
              /\ Continue(Rest)
  /\ UNCHANGED <<file, desc, fault, db, task, ret, sections>>

\* return obj; readObjects: db.objects[obj.id] = obj
StoreObject ==
  /\ Silent("storeObject")
  /\ db' = IF Truthy(obj) THEN [db EXCEPT !.objects = (obj.id :> obj) @@ @] ELSE db
  /\ obj' = NoObject
  /\ Continue(Rest)
  /\ UNCHANGED <<file, desc, fault, task, ret, sections>>

---------------------------------------------------------------------------
(* Reader.readProperties                                                   *)

\* numProperties = self.readInt(); propertyNames = []
ReadProperties ==
  /\ Reads("readProperties")
  /\ IF ~PyIntOK(Text)
     THEN Raise("ValueError", "invalid literal for int()")
     ELSE LET numProperties == PyInt(Text)
          IN  IF numProperties > 0
              THEN Continue(<<FA("readProperties.name", numProperties, <<>>)>> \o Rest)
              ELSE Continue(<<FA("readProperties.numPropdefs", 0, <<>>)>> \o Rest)
  /\ UNCHANGED <<file, desc, fault, db, obj, task, ret, sections>>

\* propertyNames.append(self.readString())
ReadPropertyName ==
  /\ Reads("readProperties.name")
  /\ LET propertyNames == Append(Top.b, Text)
     IN  IF Top.a = 1
         THEN Continue(<<FA("readProperties.numPropdefs", 0, propertyNames)>> \o Rest)
         ELSE Continue(<<FA("readProperties.name", Top.a - 1, propertyNames)>> \o Rest)
  /\ UNCHANGED <<file, desc, fault, db, obj, task, ret, sections>>

\* numPropdefs = self.readInt()
ReadNumPropdefs ==
  /\ Reads("readProperties.numPropdefs")
  /\ IF ~PyIntOK(Text)
     THEN Raise("ValueError", "invalid literal for int()")
     ELSE LET numPropdefs == PyInt(Text)
          IN  IF numPropdefs > 0
              THEN Continue(<<FA("readProperties.propdef", numPropdefs, Top.b)>> \o Rest)
              ELSE Continue(Rest)
  /\ UNCHANGED <<file, desc, fault, db, obj, task, ret, sections>>

\* a queue of names served from its other end
PopNameLast(propertyNames) ==
  IF propertyNames # <<>>
  THEN [name |-> PyS(propertyNames[Len(propertyNames)]),
        left |-> SubSeq(propertyNames, 1, Len(propertyNames) - 1)]
  ELSE [name |-> PyNone, left |-> propertyNames]

\* propertyName = None; if propertyNames: propertyName = propertyNames.pop(0)
PopName(propertyNames) ==
  IF propertyNames # <<>>
  THEN [name |-> PyS(Head(propertyNames)), left |-> Tail(propertyNames)]
  ELSE [name |-> PyNone, left |-> propertyNames]

\* the start of one iteration over range(numPropdefs); value = self.readValue()
BeginPropdef ==
  /\ Silent("readProperties.propdef")
  /\ LET p == PopName(Top.b)
     IN  Continue(<<F("readValue"),
                    FA("readProperties.owner", Top.a, [names |-> p.left, name |-> p.name])>>
                  \o Rest)
  /\ UNCHANGED <<file, desc, fault, db, obj, task, ret, sections>>

\* owner = self.readObjnum(), after value = <the value readValue returned>
ReadPropertyOwner ==
  /\ Reads("readProperties.owner")
  /\ IF PyIntOK(Text)
     THEN Continue(<<FA("readProperties.perms", Top.a,
                        [names |-> Top.b.names, name |-> Top.b.name, value |-> ret,
                         owner |-> PyInt(Text)])>> \o Rest)
     ELSE Raise("ValueError", "invalid literal for int()")
  /\ UNCHANGED <<file, desc, fault, db, obj, task, ret, sections>>

\* perms = self.readInt(); obj.properties.append(Property(propertyName, value, owner, perms))
ReadPropertyPerms ==
  /\ Reads("readProperties.perms")
  /\ IF ~PyIntOK(Text)
     THEN obj' = obj /\ Raise("ValueError", "invalid literal for int()")
     ELSE /\ obj' = [obj EXCEPT !.properties =
                       Append(@, Property(Top.b.name, Top.b.value, Top.b.owner, PyInt(Text)))]
          /\ IF Top.a = 1
             THEN Continue(Rest)
             ELSE Continue(<<FA("readProperties.propdef", Top.a - 1, Top.b.names)>> \o Rest)
  /\ UNCHANGED <<file, desc, fault, db, task, ret, sections>>

---------------------------------------------------------------------------
(* Reader.readVerbs, readVerb, readCode                                    *)

\* for _ in range(db.total_verbs): self.readVerb(db)
ReadVerbs ==
  /\ Silent("readVerbs")
  /\ sections' = Append(sections, "readVerbs")
  /\ Continue(Rep(db.total_verbs, <<F("readVerb")>>) \o Rest)
  /\ UNCHANGED <<file, desc, fault, db, obj, task, ret>>

\* verbLocation = self.readString() ... code = self.readCode()
ReadVerb ==
  /\ Reads("readVerb")
  /\ LET verbLocation == Text
     IN  IF ~Contains(verbLocation, <<":">>)
         THEN parse_error("verb does not have seperator")
         ELSE LET sep == IndexOf(verbLocation, ":")
                  objText == SubSeq(verbLocation, 2, sep)
                  verbText == From(verbLocation, sep + 1)
              IN  IF ~PyIntOK(objText) \/ ~PyIntOK(verbText)
                  THEN Raise("ValueError", "invalid literal for int()")
                  ELSE Continue(<<FA("readCode", 0, <<>>),
                                  FA("readVerb.attach", PyInt(objText), PyInt(verbText))>>
                                \o Rest)
  /\ UNCHANGED <<file, desc, fault, db, obj, task, ret, sections>>

\* lastLine = self.readString(); while lastLine != ".": code.append(lastLine)
ReadCode ==
  /\ Reads("readCode")
  /\ IF Text = <<".">>
     THEN ret' = [t |-> "code", c |-> Top.b] /\ Continue(Rest)
     ELSE ret' = ret /\ Continue(<<FA("readCode", 0, Append(Top.b, Text))>> \o Rest)
  /\ UNCHANGED <<file, desc, fault, db, obj, task, sections>>

\* obj = db.objects.get(objNumber) ... verb = obj.verbs[verbNumber] ... verb.code = code
AttachCode ==
  /\ Silent("readVerb.attach")
  /\ LET objNumber == Top.a
         verbNumber == Top.b
     IN  IF objNumber \notin DOMAIN db.objects
         THEN db' = db /\ parse_error("object not found")
         ELSE LET o == db.objects[objNumber]
                  i == PyIndex(o.verbs, verbNumber)
              IN  IF ~Truthy(o)
                  THEN db' = db /\ parse_error("object not found")
                  ELSE IF i = 0
                  THEN db' = db /\ Raise("IndexError", "list index out of range")
                  ELSE IF ~Truthy(o.verbs[i])
                  THEN db' = db /\ parse_error("verb not found on object")
                  ELSE /\ db' = [db EXCEPT !.objects[objNumber].verbs[i].code =
                                    [set |-> TRUE, lines |-> ret.c]]
                       /\ Continue(Rest)
  /\ UNCHANGED <<file, desc, fault, obj, task, ret, sections>>

---------------------------------------------------------------------------
(* Reader.readPending, readClocks, readConnections                         *)

\* a count header: the line, matched against re; then n frames per counted record
CountHeader(re, msg, frames) ==
  LET m == Match(re, Text)
  IN  IF ~m.ok THEN parse_error(msg)
      ELSE Continue(Rep(PyInt(m.caps[1]), frames) \o Rest)

ReadPending ==
  /\ Reads("readPending")
  /\ sections' = Append(sections, "readPending")
  /\ CountHeader(pendingValueRe, "Bad pending finalizations", <<F("readValue")>>)
  /\ UNCHANGED <<file, desc, fault, db, obj, task, ret>>

ReadClocks ==
  /\ Reads("readClocks")
  /\ sections' = Append(sections, "readClocks")
  /\ CountHeader(clockCountRe, "Could not find clock definitions", <<F("readClock")>>)
  /\ UNCHANGED <<file, desc, fault, db, obj, task, ret>>

\* self.readString()
ReadClock ==
  /\ Reads("readClock")
  /\ Continue(Rest)
  /\ UNCHANGED <<file, desc, fault, db, obj, task, ret, sections>>

ReadConnections ==
  /\ Reads("readConnections")
  /\ sections' = Append(sections, "readConnections")
  /\ CountHeader(connectionCountRe, "Bad active connections header line",
                 <<F("readConnection")>>)
  /\ UNCHANGED <<file, desc, fault, db, obj, task, ret>>

\* self.readString(): read and discard
ReadConnection ==
  /\ Reads("readConnection")
  /\ Continue(Rest)
  /\ UNCHANGED <<file, desc, fault, db, obj, task, ret, sections>>

---------------------------------------------------------------------------
(* Reader.readTaskQueue, readQueuedTask, readActivation, readRTEnv         *)

ReadTaskQueue ==
  /\ Reads("readTaskQueue")
  /\ sections' = Append(sections, "readTaskQueue")
  /\ LET m == Match(taskCountRe, Text)
     IN  IF ~m.ok
         THEN db' = db /\ parse_error("Could not find task queue")
         ELSE /\ db' = [db EXCEPT !.queuedTasks = <<>>]
              /\ Continue(Rep(PyInt(m.caps[1]), <<F("readQueuedTask")>>) \o Rest)
  /\ UNCHANGED <<file, desc, fault, obj, task, ret>>

\* the reads of readActivation before its header line, gated by the version
readActivation(version) ==
  <<F("readValue")>>
  \o (IF version >= DBV_This THEN <<F("readValue")>> ELSE <<>>)
  \o (IF version >= DBV_Anon THEN <<F("readValue")>> ELSE <<>>)
  \o (IF version >= DBV_Threaded THEN <<F("readActivation.threaded")>> ELSE <<>>)
  \o <<F("readActivation.header"), FA("readActivation.strings", 1, <<>>)>>

\* headerLine = self.readString() ... task = QueuedTask(firstLineno, id, st)
ReadQueuedTask ==
  /\ Reads("readQueuedTask")
  /\ LET m == Match(taskHeaderRe, Text)
     IN  IF ~m.ok
         THEN task' = task /\ parse_error("Could not find task header")
         ELSE /\ task' = QueuedTask(PyInt(m.caps[1]), PyInt(m.caps[3]), PyInt(m.caps[2]))
              /\ Continue(readActivation(db.version)
                          \o <<F("readRTEnv"), FA("readCode", 0, <<>>), F("readQueuedTask.append")>>
                          \o Rest)
  /\ UNCHANGED <<file, desc, fault, db, obj, ret, sections>>

\* _threaded = self.readInt()
ReadThreaded ==
  /\ Reads("readActivation.threaded")
  /\ IF PyIntOK(Text) THEN Continue(Rest)
     ELSE Raise("ValueError", "invalid literal for int()")
  /\ UNCHANGED <<file, desc, fault, db, obj, task, ret, sections>>

\* headerLine = self.readString() ... activation.debug = bool(headerMatch[5])
ReadActivationHeader ==
  /\ Reads("readActivation.header")
  /\ LET m == Match(activationHeaderRe, Text)
     IN  IF ~m.ok
         THEN task' = task /\ parse_error("Could not find activation header")
         ELSE /\ task' = [task EXCEPT !.activation =
                            [Activation EXCEPT !.this = PyInt(m.caps[1]),
                                               !.player = PyInt(m.caps[2]),
                                               !.programmer = PyInt(m.caps[3]),
                                               !.vloc = PyInt(m.caps[4]),
                                               !.debug = (m.caps[5] # <<>>)]]
              /\ Continue(Rest)
  /\ UNCHANGED <<file, desc, fault, db, obj, ret, sections>>

\* argstr, dobjstr, prepstr, iobjstr (discarded), activation.verb, activation.verbname
ReadActivationString ==
  /\ Reads("readActivation.strings")
  /\ LET i == Top.a
     IN  /\ task' = CASE i = 5 -> [task EXCEPT !.activation.verb = Text]
                      [] i = 6 -> [task EXCEPT !.activation.verbname = Text]
                      [] OTHER -> task
         /\ IF i = 6 THEN Continue(Rest)
            ELSE Continue(<<FA("readActivation.strings", i + 1, <<>>)>> \o Rest)
  /\ UNCHANGED <<file, desc, fault, db, obj, ret, sections>>

\* varCountLine = self.readString() ... rtEnv = {}
ReadRTEnv ==
  /\ Reads("readRTEnv")
  /\ LET m == Match(varCountRe, Text)
     IN  IF ~m.ok
         THEN task' = task /\ parse_error("Could not find variable count for RT Env")
         ELSE /\ task' = [task EXCEPT !.rtEnv = <<>>]
              /\ Continue(Rep(PyInt(m.caps[1]), <<F("readRTEnv.name")>>) \o Rest)
  /\ UNCHANGED <<file, desc, fault, db, obj, ret, sections>>

\* name = self.readString(); value = self.readValue(); rtEnv[name] = value
ReadVarName ==
  /\ Reads("readRTEnv.name")
  /\ Continue(<<F("readValue"), FA("assign", "rtEnv", Text)>> \o Rest)
  /\ UNCHANGED <<file, desc, fault, db, obj, task, ret, sections>>

\* task.code = <the code readCode returned>; db.queuedTasks.append(task)
AppendQueuedTask ==
  /\ Silent("readQueuedTask.append")
  /\ db' = [db EXCEPT !.queuedTasks = Append(@, [task EXCEPT !.code = ret.c])]
  /\ task' = NoTask
  /\ Continue(Rest)
  /\ UNCHANGED <<file, desc, fault, obj, ret, sections>>

---------------------------------------------------------------------------
(* Reader.readSuspendedTasks, readSuspendedTask                            *)

ReadSuspendedTasks ==
  /\ Reads("readSuspendedTasks")
  /\ sections' = Append(sections, "readSuspendedTasks")
  /\ CountHeader(suspendedTaskCountRe, "Bad suspended tasks header", <<F("readSuspendedTask")>>)
  /\ UNCHANGED <<file, desc, fault, db, obj, task, ret>>

ReadSuspendedTask ==
  /\ Reads("readSuspendedTask")
  /\ LET m == Match(suspendedTaskHeaderRe, Text)
     IN  IF ~m.ok
         THEN task' = task /\ db' = db /\ parse_error("Bad suspended task header")
         ELSE LET t == QueuedTask(0, PyInt(m.caps[2]), PyInt(m.caps[1]))
              IN  IF m.caps[4] # <<>>
                  THEN \* if taskMatch.group("value"): task.value = self.readValue()
                       /\ task' = t /\ db' = db
                       /\ Continue(<<F("readValue"), FA("assign", "task.value", <<>>)>> \o Rest)
                  ELSE /\ task' = task
                       /\ db' = [db EXCEPT !.queuedTasks = Append(@, t)]
                       /\ Continue(Rest)
  /\ UNCHANGED <<file, desc, fault, obj, ret, sections>>

---------------------------------------------------------------------------
(* Reader.readInterruptedTasks, readInterruptedTask                        *)

ReadInterruptedTasks ==
  /\ Reads("readInterruptedTasks")
  /\ sections' = Append(sections, "readInterruptedTasks")
  /\ CountHeader(interruptedTaskCountRe, "Bad suspended tasks header",
                 <<F("readInterruptedTask")>>)
  /\ UNCHANGED <<file, desc, fault, db, obj, task, ret>>

ReadInterruptedTask ==
  /\ Reads("readInterruptedTask")
  /\ IF ~Match(interruptedTaskHeaderRe, Text).ok
     THEN parse_error("Bad interrupted tasks header")
     ELSE \* raise NotImplemented(): the constant NotImplemented is not callable
          Raise("TypeError", "'NotImplementedType' object is not callable")
  /\ UNCHANGED <<file, desc, fault, db, obj, task, ret, sections>>

---------------------------------------------------------------------------
(* The reader.                                                             *)

Next ==
  \/ Parse \/ Return
  \/ ReadTotalObjects \/ ReadTotalVerbs \/ ReadDummy
  \/ ReadPlayers \/ ReadPlayer
  \/ ReadValue \/ ReadStringValue \/ ReadIntValue \/ ReadFloatValue \/ ReadBoolValue
  \/ ReadList \/ ListAppend \/ ReadMap \/ MapKey \/ MapStore
  \/ ReadObjects \/ ReadObject_v4 \/ ReadObject_v4_Field \/ ReadObject_ng
  \/ ReadObject_ng_Field \/ Assign \/ ReadNumVerbs \/ ReadVerbMetadata \/ StoreObject
  \/ ReadProperties \/ ReadPropertyName \/ ReadNumPropdefs \/ BeginPropdef
  \/ ReadPropertyOwner \/ ReadPropertyPerms
  \/ ReadVerbs \/ ReadVerb \/ ReadCode \/ AttachCode
  \/ ReadPending \/ ReadClocks \/ ReadClock \/ ReadConnections \/ ReadConnection
  \/ ReadTaskQueue \/ ReadQueuedTask \/ ReadThreaded \/ ReadActivationHeader
  \/ ReadActivationString \/ ReadRTEnv \/ ReadVarName \/ AppendQueuedTask
  \/ ReadSuspendedTasks \/ ReadSuspendedTask
  \/ ReadInterruptedTasks \/ ReadInterruptedTask

---------------------------------------------------------------------------
(* The inputs: files written from an abstract database in the layout the   *)
(* two format generations prescribe, then possibly damaged.                *)

DigitChar(d) ==
  CASE d = 0 -> "0" [] d = 1 -> "1" [] d = 2 -> "2" [] d = 3 -> "3" [] d = 4 -> "4"
    [] d = 5 -> "5" [] d = 6 -> "6" [] d = 7 -> "7" [] d = 8 -> "8" [] d = 9 -> "9"

RECURSIVE NatStr(_)
NatStr(n) == IF n < 10 THEN <<DigitChar(n)>> ELSE NatStr(n \div 10) \o <<DigitChar(n % 10)>>

\* the decimal numeral of an integer
Dec(n) == IF n < 0 THEN <<"-">> \o NatStr(0 - n) ELSE NatStr(n)

RECURSIVE Flat(_)
Flat(seqs) == IF seqs = <<>> THEN <<>> ELSE Head(seqs) \o Flat(Tail(seqs))

RECURSIVE JoinSp(_)
JoinSp(words) ==
  IF Len(words) = 0 THEN <<>>
  ELSE IF Len(words) = 1 THEN words[1]
  ELSE words[1] \o Sp \o JoinSp(Tail(words))

\* integers on one line, separated by single spaces
IntsLine(ints) == JoinSp([i \in 1..Len(ints) |-> Dec(ints[i])])

SeqsUpTo(S, n) == UNION {[1..k -> S] : k \in 0..n}

Raw(lines) == [t |-> "raw", r |-> lines]

\* the lines of a value; a Raw value stands for its own lines
RECURSIVE WriteValue(_)
WriteValue(v) ==
  CASE v.t = "raw" -> v.r
    [] v.t = "int" -> <<Dec(MooTypes_INT), Dec(v.i)>>
    [] v.t = "str" -> <<Dec(MooTypes_STR), v.s>>
    [] v.t = "None" -> <<Dec(MooTypes_CLEAR)>>
    [] v.t = "list" ->
         <<Dec(MooTypes_LIST), Dec(Len(v.l))>>
         \o Flat([i \in 1..Len(v.l) |-> WriteValue(v.l[i])])
    [] v.t = "dict" ->
         <<Dec(MooTypes_MAP), Dec(Len(v.d))>>
         \o Flat([i \in 1..Len(v.d) |-> WriteValue(v.d[i][1]) \o WriteValue(v.d[i][2])])

\* the fixed fields the writer gives every object, verb and property
WFixed == [flags |-> 1, owner |-> 2, location |-> 3, parent |-> 5, perms |-> 6, preps |-> 7]
WFlags == WFixed.flags
WOwner == WFixed.owner
WLocation == WFixed.location
WParent == WFixed.parent
WVerbPerms == WFixed.perms
WVerbPreps == WFixed.preps
WName == <<"o">>
WVerbName(i) == <<"v">> \o Dec(i)
WPropOwner(j) == 20 + j
WPropPerms(j) == 30 + j

WriteVerbs(n) == Flat([i \in 1..n |-> <<WVerbName(i), Dec(WOwner), Dec(WVerbPerms), Dec(WVerbPreps)>>])

WriteProperties(names, defs) ==
  <<Dec(Len(names))>> \o names \o <<Dec(Len(defs))>>
  \o Flat([j \in 1..Len(defs) |->
             WriteValue(defs[j]) \o <<Dec(WPropOwner(j)), Dec(WPropPerms(j))>>])

\* an object record: o = [rec, id, nverbs, names, defs]
WriteObject(o, ver) ==
  IF o.rec THEN <<(<<"#">> \o Dec(o.id) \o Sp \o WRecycled)>>
  ELSE IF ver = 4
  THEN <<(<<"#">> \o Dec(o.id)), WName, <<>>, Dec(WFlags), Dec(WOwner), Dec(WLocation),
         Dec(0 - 1), Dec(0 - 1), Dec(WParent), Dec(0 - 1), Dec(0 - 1), Dec(o.nverbs)>>
       \o WriteVerbs(o.nverbs) \o WriteProperties(o.names, o.defs)
  ELSE <<(<<"#">> \o Dec(o.id)), WName, Dec(WFlags), Dec(WOwner)>>
       \o WriteValue(Raw(<<Dec(MooTypes_OBJ), Dec(WLocation)>>))
       \o (IF ver >= DBV_Last_Move THEN WriteValue(PyNone) ELSE <<>>)
       \o WriteValue(PyL(<<>>))
       \o WriteValue(PyL(<<Raw(<<Dec(MooTypes_OBJ), Dec(WParent)>>)>>))
       \o WriteValue(PyL(<<>>))
       \o <<Dec(o.nverbs)>>
       \o WriteVerbs(o.nverbs) \o WriteProperties(o.names, o.defs)

\* a verb code block: c = [o, i, lines]
WriteCode(c) == <<(<<"#">> \o Dec(c.o) \o <<":">> \o Dec(c.i))>> \o c.lines \o <<<<".">>>>

\* a queued task: t = [hdr, act, vars, code]; act is the activation header line
WriteTask(t, ver) ==
  <<IntsLine(t.hdr)>>
  \o WriteValue(PyNone)
  \o (IF ver >= DBV_This THEN WriteValue(PyI(0)) ELSE <<>>)
  \o (IF ver >= DBV_Anon THEN WriteValue(PyI(0)) ELSE <<>>)
  \o (IF ver >= DBV_Threaded THEN <<Dec(0)>> ELSE <<>>)
  \o <<t.act, <<>>, <<>>, <<>>, <<>>, <<"v", "b">>, <<"n", "m">>>>
  \o <<(Dec(Len(t.vars)) \o WVariables)>>
  \o Flat([i \in 1..Len(t.vars) |-> <<t.vars[i][1]>> \o WriteValue(t.vars[i][2])])
  \o t.code \o <<<<".">>>>

VersionLine(ver) == VersionPrefix \o Dec(ver) \o VersionSuffix

WritePlayers(d) == <<Dec(Len(d.players))>> \o [i \in 1..Len(d.players) |-> Dec(d.players[i])]
WriteObjects(d) == Flat([i \in 1..Len(d.objs) |-> WriteObject(d.objs[i], d.ver)])
WriteVerbCode(d) == Flat([i \in 1..Len(d.codes) |-> WriteCode(d.codes[i])])
WriteClocks(d) == <<(Dec(d.clocks) \o WClocks)>> \o [i \in 1..d.clocks |-> <<"c">>]
WriteTasks(d) ==
  <<(Dec(Len(d.tasks)) \o WQueuedTasks)>>
  \o Flat([i \in 1..Len(d.tasks) |-> WriteTask(d.tasks[i], d.ver)])

\* the lines before the object records
WriteHead(d) ==
  IF d.ver = 4
  THEN <<VersionLine(d.ver), Dec(Len(d.objs)), Dec(Len(d.codes)), <<"0">>>> \o WritePlayers(d)
  ELSE <<VersionLine(d.ver)>> \o WritePlayers(d)
       \o <<(Dec(Len(d.pending)) \o WPending)>>
       \o Flat([i \in 1..Len(d.pending) |-> WriteValue(d.pending[i])])
       \o WriteClocks(d) \o WriteTasks(d)
       \o <<(Dec(Len(d.susp)) \o WSuspendedTasks)>> \o Flat(d.susp)
       \o <<(Dec(Len(d.intr)) \o WInterruptedTasks)>> \o d.intr
       \o <<(Dec(d.conns) \o WActiveConnections \o WWithListeners)>>
       \o [i \in 1..d.conns |-> <<"c">>]
       \o <<Dec(Len(d.objs))>>

WriteLines(d) ==
  IF d.ver = 4
  THEN WriteHead(d) \o WriteObjects(d) \o WriteVerbCode(d) \o WriteClocks(d) \o WriteTasks(d)
  ELSE WriteHead(d) \o WriteObjects(d) \o <<Dec(Len(d.codes))>> \o WriteVerbCode(d)

\* the file as readline() returns it: every line with its terminator
Terminated(lines, eol) == [i \in 1..Len(lines) |-> lines[i] \o eol]

\* a damaged file: one line replaced, the file cut short, or CR LF line ends
Damaged(lines, f) ==
  CASE f.k = "none" -> Terminated(lines, <<"\n">>)
    [] f.k = "crlf" -> Terminated(lines, <<"\r", "\n">>)
    [] f.k = "cut" -> Terminated(SubSeq(lines, 1, f.at), <<"\n">>)
    [] f.k = "subst" -> Terminated([lines EXCEPT ![f.at] = f.with], <<"\n">>)

NoFault == [k |-> "none", at |-> 0, with |-> <<>>]

---------------------------------------------------------------------------
(* The abstract databases the files are written from.                      *)

Minimal(ver) ==
  [ver |-> ver, players |-> <<>>, objs |-> <<>>, codes |-> <<>>, clocks |-> 0,
   tasks |-> <<>>, pending |-> <<>>, susp |-> <<>>, intr |-> <<>>, conns |-> 0]

Recycled(id) == [rec |-> TRUE, id |-> id, nverbs |-> 0, names |-> <<>>, defs |-> <<>>]
Object(id, nverbs, names, defs) ==
  [rec |-> FALSE, id |-> id, nverbs |-> nverbs, names |-> names, defs |-> defs]

\* activation header lines: nine fields, nine fields with signs, six fields
ActNine == IntsLine(<<1, 0 - 7, 0 - 8, 2, 0 - 9, 3, 4, 0 - 10, 0>>)
ActNineSigned == IntsLine(<<0 - 1, 0 - 7, 0 - 8, 0 - 2, 0 - 9, 0 - 3, 0 - 4, 0 - 10, 1>>)
ActSix == IntsLine(<<1, 2, 3, 4, 0, 1>>)
ActSixSigned == IntsLine(<<0 - 1, 0 - 1, 0 - 1, 0 - 1, 0, 0>>)

Task(act, env) == [hdr |-> <<0, 11, 12, 13>>, act |-> act, vars |-> env, code |-> <<<<"y">>>>]

\* the format versions written
Versions == {3, 4, 5, 16, 17, 18}

\* every section populated
Full(ver) ==
  [ver |-> ver,
   players |-> <<2>>,
   objs |-> <<Object(0, 1, <<<<"a">>>>,
                     <<PyI(7), PyD(<< <<PyS(<<"k">>), PyL(<<PyI(1)>>)>> >>)>>),
              Recycled(1)>>,
   codes |-> <<[o |-> 0, i |-> 0, lines |-> <<<<"x">>>>]>>,
   clocks |-> 1,
   tasks |-> <<Task(ActNine, << <<<<"n">>, PyI(3)>> >>)>>,
   pending |-> <<PyS(<<"s">>)>>,
   susp |-> << <<IntsLine(<<10, 5>>) \o Sp>> >>,
   intr |-> <<>>,
   conns |-> 1]

\* object sections: records that are placeholders or objects, ids free to repeat
ObjectRecords == {Recycled(0), Recycled(1), Object(0, 0, <<>>, <<>>), Object(1, 0, <<>>, <<>>)}

ObjectFamily ==
  {[Minimal(ver) EXCEPT !.objs = objs] :
     ver \in {4, 17}, objs \in SeqsUpTo(ObjectRecords, MaxObjects)}

\* property sections: M declared names, D definitions
PropertyNames == {<<"a">>, <<"b">>}
PropertyValues == {PyI(7), PyL(<<PyS(<<"x">>), PyNone>>)}

PropertyFamily ==
  {[Minimal(ver) EXCEPT !.objs = <<Object(0, 1, names, defs)>>] :
     ver \in {4, 17},
     names \in SeqsUpTo(PropertyNames, MaxNames),
     defs \in SeqsUpTo(PropertyValues, MaxDefs)}

\* verb sections: code blocks addressed to present and absent objects and verbs
CodeBlocks == {[o |-> o, i |-> i, lines |-> <<<<"x">>>>] : o \in {0, 1}, i \in {0 - 1, 0, 1, 2}}

VerbFamily ==
  {[Minimal(ver) EXCEPT !.objs = <<Object(0, nverbs, <<>>, <<>>)>>, !.codes = codes] :
     ver \in {4, 17}, nverbs \in 0..2, codes \in SeqsUpTo(CodeBlocks, MaxBlocks)}

\* values: every type tag, nesting, keys of every kind
Values ==
  {PyI(0 - 1), PyS(<<>>), PyNone,
   Raw(<<Dec(MooTypes_NONE)>>),
   Raw(<<Dec(MooTypes_OBJ), Dec(3)>>),
   Raw(<<Dec(MooTypes_ERR), Dec(2)>>),
   Raw(<<Dec(MooTypes_FLOAT), <<"1", ".", "5", "0">>>>),
   Raw(<<Dec(MooTypes_FLOAT), <<"x">>>>),
   Raw(<<Dec(MooTypes_BOOL), <<"1">>>>),
   Raw(<<Dec(MooTypes_BOOL), <<"0">>>>),
   Raw(<<Dec(MooTypes_BOOL), <<>>>>),
   Raw(<<Dec(MooTypes_ANON), Dec(3)>>),
   Raw(<<Dec(7)>>),
   PyL(<<PyI(1), PyS(<<"a">>), PyL(<<>>)>>),
   PyD(<<>>),
   PyD(<< <<PyI(1), PyI(2)>>, <<PyS(<<"a">>), PyL(<<>>)>> >>),
   PyD(<< <<PyI(1), PyI(2)>>, <<PyI(1), PyI(3)>> >>),
   PyD(<< <<PyI(1), PyI(2)>>, <<Raw(<<Dec(MooTypes_FLOAT), <<"1", ".", "0">>>>), PyI(3)>> >>),
   PyD(<< <<PyNone, PyI(2)>> >>),
   PyD(<< <<PyL(<<>>), PyI(2)>> >>),
   PyD(<< <<PyL(<<PyI(1)>>), PyI(2)>>, <<PyI(1), PyI(2)>> >>),
   PyD(<< <<PyD(<<>>), PyI(2)>> >>),
   PyD(<< <<PyI(1), PyD(<< <<PyI(1), PyI(2)>> >>)>> >>)}

ValueFamily == {[Minimal(17) EXCEPT !.pending = <<v>>] : v \in Values}

\* queued tasks: the activation header written each way
TaskFamily ==
  {[Minimal(ver) EXCEPT !.tasks = <<Task(act, env)>>] :
     ver \in {4, 17},
     act \in {ActNine, ActNineSigned, ActSix, ActSixSigned},
     env \in {<<>>, << <<<<"n">>, PyI(3)>>, <<<<"n">>, PyI(4)>> >>}}

\* suspended tasks: header alone, header and a value on the record, value on the next lines
SuspendedRecords ==
  {<<IntsLine(<<10, 5>>)>>,
   <<IntsLine(<<10, 5>>) \o Sp>>,
   <<IntsLine(<<10, 5, MooTypes_INT>>), Dec(7)>>,
   <<IntsLine(<<10, 5, MooTypes_CLEAR>>)>>,
   <<IntsLine(<<10, 5>>) \o Sp, Dec(MooTypes_INT), Dec(7)>>}

SuspendedFamily ==
  {[Minimal(17) EXCEPT !.susp = susp] : susp \in SeqsUpTo(SuspendedRecords, MaxSuspended)}

\* lines put in the place of a line of a file
Lines ==
  {<<>>, <<"0">>, <<"1">>, <<"2">>, <<"-", "1">>, <<"x">>, <<".">>,
   <<"#", "0">>, <<"#", "1", " ">> \o WRecycled, <<"#", "0", ":", "0">>, <<"#", "0", ":", "5">>,
   <<"a", "b", "c">> \o WQueuedTasks, <<"1">> \o WQueuedTasks, <<"1">> \o WClocks \o <<"X">>,
   <<"1">> \o WVariables, ActNineSigned, ActSix, IntsLine(<<10, 5>>),
   WInterruptedReading, <<"5">> \o WInterruptedReading,
   VersionLine(4), VersionLine(17), VersionLine(18)}

\* interrupted tasks: a count above 0, then any line
InterruptedFamily == {[Minimal(17) EXCEPT !.intr = <<l>>] : l \in Lines}

Descs ==
  {Minimal(ver) : ver \in Versions} \cup {Full(4), Full(17)}
  \cup ObjectFamily \cup PropertyFamily \cup VerbFamily \cup ValueFamily
  \cup TaskFamily \cup SuspendedFamily \cup InterruptedFamily

\* the fully populated files are also read damaged
Faults(d) ==
  IF d \in {Full(4), Full(17)}
  THEN LET n == Len(WriteLines(d))
       IN  {NoFault, [k |-> "crlf", at |-> 0, with |-> <<>>]}
           \cup {[k |-> "cut", at |-> i, with |-> <<>>] : i \in 0..(n - 1)}
           \cup {[k |-> "subst", at |-> i, with |-> l] : i \in 1..n, l \in Lines}
  ELSE {NoFault}

Init ==
  /\ desc \in Descs
  /\ fault \in Faults(desc)
  /\ file = Damaged(WriteLines(desc), fault)
  /\ line = 0
  /\ stack = <<F("parse")>>
  /\ status = "running"
  /\ err = NoErr
  /\ db = MooDatabase
  /\ obj = NoObject
  /\ task = NoTask
  /\ ret = PyNone
  /\ sections = <<>>

Spec == Init /\ [][Next]_vars

---------------------------------------------------------------------------
(* The properties.  The documented error taxonomy is read off the          *)
(* exception the reader raises.                                            *)

ErrClass(e) ==
  IF e.kind = "parse_error"
  THEN IF e.msg = "Unknown db version" THEN "UnsupportedVersion"
       ELSE IF e.msg \in {"object not found", "verb not found on object"}
            THEN "ReferenceNotFound"
            ELSE "MalformedDatabase"
  ELSE IF e.kind = "TypeError" /\ e.op = "readInterruptedTask" THEN "UnsupportedFeature"
  ELSE e.kind

IsPrefix(s, t) == Len(s) <= Len(t) /\ SubSeq(t, 1, Len(s)) = s

\* the first line is a version line / the version it gives
HasVersion == Len(file) >= 1 /\ Match(versionRe, RStripNewlines(file[1])).ok
FileVersion == PyInt(Match(versionRe, RStripNewlines(file[1])).caps[1])

LegacyOrder ==
  <<"total_objects", "total_verbs", "dummy", "readPlayers", "readObjects", "readVerbs",
    "readClocks", "readTaskQueue">>

NextGenOrder ==
  <<"readPlayers", "readPending", "readClocks", "readTaskQueue", "readSuspendedTasks",
    "readInterruptedTasks", "readConnections", "total_objects", "readObjects",
    "total_verbs", "readVerbs">>

\* the sections entered so far follow order; the whole of it once parse returns;
\* the version itself is never the reason of a failure
Runs(order) ==
  /\ IsPrefix(sections, order)
  /\ status = "done" => sections = order
  /\ status = "failed" => ErrClass(err) # "UnsupportedVersion"

\* the version is refused on the version line
Refused ==
  /\ status = "failed"
  /\ ErrClass(err) = "UnsupportedVersion"
  /\ err.line = 1
  /\ line = 1
  /\ sections = <<>>

\* C1 (as the code has it): once the version line is read, version 4 runs the legacy
\* sequence, version 17 runs the next-gen sequence, and every other version, those above
\* 17 included, fails with UnsupportedVersion at line 1 having read no further line.
C1_Dispatch ==
  (line >= 1 /\ HasVersion) =>
     /\ FileVersion = 4 => Runs(LegacyOrder)
     /\ FileVersion = 17 => Runs(NextGenOrder)
     /\ FileVersion \notin {4, 17} => Refused

\* C1 (as stated): version 4 runs the legacy sequence, every version >= 17 runs the
\* next-gen sequence, any other version fails with UnsupportedVersion on the version line.
C1_DispatchAsStated ==
  (line >= 1 /\ HasVersion) =>
     /\ FileVersion = 4 => Runs(LegacyOrder)
     /\ FileVersion >= 17 => Runs(NextGenOrder)
     /\ (FileVersion # 4 /\ FileVersion < 17) => Refused

\* a version 17 file decoded to the end, through the eleven next-gen sections
C1_Witness ==
  HasVersion /\ FileVersion = 17 /\ status = "done" /\ sections = NextGenOrder

\* C2: whenever the source is exhausted, the next line read fails instead of returning a
\* line, so that no decode keeps reading past the end of its input.
C2_ReadPastEndFails ==
  [][(status = "running" /\ line >= Len(file) /\ line' = line + 1) => status' = "failed"]_vars

\* C3: a code block '#<objectId>:<verbIndex>' whose object was decoded and whose index is
\* a valid index of its verb list becomes the code of exactly that verb, no other verb
\* changing; with the object absent or the index out of range the decode fails with
\* ReferenceNotFound.
C3_VerbCodeResolution ==
  [][Step("readVerb.attach") =>
       LET objectId == Top.a
           verbIndex == Top.b
       IN  IF objectId \in DOMAIN db.objects
              /\ verbIndex \in 0..(Len(db.objects[objectId].verbs) - 1)
           THEN /\ status' = "running"
                /\ db'.objects = [db.objects EXCEPT ![objectId].verbs[verbIndex + 1].code =
                                    [set |-> TRUE, lines |-> ret.c]]
           ELSE /\ status' = "failed"
                /\ ErrClass(err') = "ReferenceNotFound"]_vars

\* C4: with an interrupted-tasks count above 0 the decode fails with UnsupportedFeature,
\* whatever the per-task line holds.
C4_InterruptedUnsupported ==
  [][Step("readInterruptedTask") =>
       (status' = "failed" /\ ErrClass(err') = "UnsupportedFeature")]_vars

\* the header parsers and the grammar of each
HeaderRe ==
  [parse |-> versionRe, readRTEnv |-> varCountRe, readClocks |-> clockCountRe,
   readTaskQueue |-> taskCountRe, readQueuedTask |-> taskHeaderRe,
   readPending |-> pendingValueRe, readSuspendedTasks |-> suspendedTaskCountRe,
   readSuspendedTask |-> suspendedTaskHeaderRe,
   readInterruptedTasks |-> interruptedTaskCountRe, readConnections |-> connectionCountRe]

IsHeaderParser(op) == op \in DOMAIN HeaderRe \/ op = "readActivation.header"

Grammar(op) == IF op = "readActivation.header" THEN activationHeaderRe ELSE HeaderRe[op]

\* C5: a header parser that reads a line not matching its grammar fails with
\* MalformedDatabase, the error carrying the 1-based number of that line, and no line
\* after it is read.
C5_MalformedHeader ==
  [][(status = "running" /\ stack # <<>> /\ IsHeaderParser(Top.op)
      /\ line < Len(file) /\ line' = line + 1 /\ ~Match(Grammar(Top.op), Text).ok)
     => (status' = "failed" /\ ErrClass(err') = "MalformedDatabase"
         /\ err'.line = line + 1)]_vars

\* C8: a Map decodes its pairs whatever Value the key is, a List or a Map included: storing
\* a pair never fails, and the mapping returned after the last pair holds that pair.
C8_AnyValueIsAKey ==
  [][Step("readMap.store") =>
       /\ status' = "running"
       /\ Top.a = 1 => (ret'.t = "dict"
                        /\ \E i \in 1..Len(ret'.d) :
                              PyEq(ret'.d[i][1], Top.b.key) /\ ret'.d[i][2] = ret)]_vars

\* a line of digits, one space, digits: the header 'startTime id' with nothing after the id
BareHeader == <<Num(TRUE), Lit(Sp), Num(TRUE)>>

\* C9: a suspended-task header 'startTime id' with nothing after the id is accepted and
\* appends the task (line number 0, that id and start time, no value); a header that
\* goes on after a space carries a value, so no task without a value is appended for it.
C9_SuspendedHeader ==
  [][(Step("readSuspendedTask") /\ line' = line + 1) =>
       LET m == Match(BareHeader, Text)
       IN  /\ (m.ok /\ m.end = Len(Text) + 1) =>
                /\ status' = "running"
                /\ db'.queuedTasks =
                     Append(db.queuedTasks, QueuedTask(0, PyInt(m.caps[2]), PyInt(m.caps[1])))
           /\ (m.ok /\ m.end < Len(Text) /\ Text[m.end] = " ") =>
                \A i \in 1..Len(db'.queuedTasks) :
                   i > Len(db.queuedTasks) => db'.queuedTasks[i].hasValue]_vars

RECURSIVE Split(_)
\* the fields of a line, separated by single spaces
Split(s) ==
  IF \E i \in 1..Len(s) : s[i] = " "
  THEN LET i == CHOOSE j \in 1..Len(s) : s[j] = " " /\ \A k \in 1..(j - 1) : s[k] # " "
       IN  <<SubSeq(s, 1, i - 1)>> \o Split(SubSeq(s, i + 1, Len(s)))
  ELSE <<s>>

IsNumericHeader(f) == \A i \in 1..Len(f) : PyIntOK(f[i])

\* C10: a six-field numeric activation header 'this player programmer vloc <unused> debug'
\* is accepted, this, player, programmer and vloc are the fields as written, sign
\* included, and debug is set exactly when the debug field is not 0; whatever numeric
\* header is accepted, this is its first field as written, sign included.
C10_ActivationHeader ==
  [][(Step("readActivation.header") /\ line' = line + 1) =>
       LET f == Split(Text)
       IN  /\ (Len(f) = 6 /\ IsNumericHeader(f)) =>
                /\ status' = "running"
                /\ task'.activation.this = PyInt(f[1])
                /\ task'.activation.player = PyInt(f[2])
                /\ task'.activation.programmer = PyInt(f[3])
                /\ task'.activation.vloc = PyInt(f[4])
                /\ task'.activation.debug = (PyInt(f[6]) # 0)
           /\ (IsNumericHeader(f) /\ status' = "running") =>
                task'.activation.this = PyInt(f[1])]_vars

---------------------------------------------------------------------------
(* Files read as written: what was decoded against what was written.       *)

Intact == fault = NoFault /\ desc.ver \in {4, 17}

\* the N records of the object section, the K placeholders among them
NumRecords == Len(desc.objs)
Placeholders == {i \in 1..NumRecords : desc.objs[i].rec}
NumRecycled == Cardinality(Placeholders)
LiveIds == {desc.objs[i].id : i \in (1..NumRecords) \ Placeholders}
RecycledIds == {desc.objs[i].id : i \in Placeholders}

\* no two object records carry the same id
DistinctIds ==
  \A i, j \in (1..NumRecords) \ Placeholders : desc.objs[i].id = desc.objs[j].id => i = j

RECURSIVE BlockLines(_)
\* the lines of the blocks: one for a placeholder, the whole record for an object
BlockLines(objs) ==
  IF objs = <<>> THEN 0
  ELSE (IF Head(objs).rec THEN 1 ELSE Len(WriteObject(Head(objs), desc.ver)))
       + BlockLines(Tail(objs))

\* the object section is the last one entered / readObjects has just returned
InObjects == sections # <<>> /\ sections[Len(sections)] = "readObjects"
ObjectsRead ==
  /\ InObjects /\ status = "running" /\ stack # <<>>
  /\ Top.op = (IF desc.ver = 4 THEN "readVerbs" ELSE "total_verbs")

\* C6 (as the code has it): the object section of a file read as written never fails;
\* after readObjects the keys of Database.objects are the ids of the records that are
\* not placeholders, N-K of them when those ids are pairwise distinct, and the cursor
\* is past all N blocks, a placeholder having taken exactly one line; v4 and next-gen.
C6_RecycledObjects ==
  (Intact /\ InObjects) =>
     /\ status # "failed"
     /\ ObjectsRead =>
          /\ DOMAIN db.objects = LiveIds
          /\ DistinctIds => Cardinality(DOMAIN db.objects) = NumRecords - NumRecycled
          /\ line = Len(WriteHead(desc)) + BlockLines(desc.objs)

\* C6 (as stated): after readObjects the map has exactly N-K entries, none keyed by a
\* recycled id, and the cursor is past all N blocks.
C6_RecycledObjectsAsStated ==
  (Intact /\ ObjectsRead) =>
     /\ Cardinality(DOMAIN db.objects) = NumRecords - NumRecycled
     /\ DOMAIN db.objects \cap RecycledIds = {}
     /\ line = Len(WriteHead(desc)) + BlockLines(desc.objs)

\* an object section with a placeholder and an object has been read
C6_Witness ==
  /\ Intact /\ ObjectsRead
  /\ NumRecycled >= 1 /\ NumRecords > NumRecycled
  /\ Cardinality(DOMAIN db.objects) = NumRecords - NumRecycled

\* the Properties of an object written with names o.names and definitions o.defs
ExpectedProperties(o) ==
  [j \in 1..Len(o.defs) |->
     Property(IF j <= Len(o.names) THEN PyS(o.names[j]) ELSE PyNone,
              o.defs[j], WPropOwner(j), WPropPerms(j))]

\* C7: an object written with M names and D definitions receives exactly D Properties
\* in definition order, the first M carrying the names in declared order, the others no
\* name, each with the Value, owner and permission bits of its definition.
C7_PropertyNames ==
  Intact =>
     /\ \A id \in DOMAIN db.objects :
          \E i \in (1..NumRecords) \ Placeholders :
             /\ desc.objs[i].id = id
             /\ db.objects[id].properties = ExpectedProperties(desc.objs[i])
     /\ ObjectsRead => LiveIds \subseteq DOMAIN db.objects

\* an object decoded from two names and three definitions
C7_Witness ==
  /\ Intact /\ status = "done"
  /\ \E id \in DOMAIN db.objects :
       LET p == db.objects[id].properties
       IN  /\ Len(p) = 3
           /\ p[1].name = PyS(<<"a">>) /\ p[2].name = PyS(<<"b">>) /\ p[3].name = PyNone

=============================================================================
